---- MODULE Spec2Model ----
(***************************************************************************)
(* Model of the JSON value replacement engine (replaceValues) of the       *)
(* catDogProj service.  One call of replaceValues is run as a small-step   *)
(* machine: the recursion replace -> replaceInArray / replaceInObject ->   *)
(* replace is kept as an explicit stack of loop frames, and every loop     *)
(* iteration and every return of a container is one step.                  *)
(***************************************************************************)
EXTENDS Integers, Sequences, FiniteSets, TLC

(***************************************************************************)
(* Bounds of the explored inputs.                                          *)
(***************************************************************************)
MaxLen == 2
MaxNest == 2
MaxLimit == 2
MaxCfgDepth == 2

(***************************************************************************)
(* JSON values: a closed tagged union.                                     *)
(***************************************************************************)
Str(s) == [kind |-> "string", str |-> s]
Num(n) == [kind |-> "number", num |-> n]
Bool(b) == [kind |-> "boolean", bool |-> b]
Null == [kind |-> "null"]
Arr(items) == [kind |-> "array", items |-> items]
Entry(k, v) == [key |-> k, value |-> v]
Obj(entries) == [kind |-> "object", entries |-> entries]
Undefined == [kind |-> "undefined"]

IsString(v) == v.kind = "string"
IsArray(v) == v.kind = "array"
isPlainObject(v) == v.kind = "object"
IsContainer(v) == IsArray(v) \/ isPlainObject(v)

DANGEROUS_KEYS == {"__proto__", "constructor", "prototype"}

(***************************************************************************)
(* The documents and configurations a call is started with.  Documents are *)
(* JSON-decoded values: every object is a plain object and its entries are *)
(* listed in the order Object.entries yields them (the keys used here are  *)
(* not integer-like, so this is their insertion order).                    *)
(***************************************************************************)
Strings == {"dog", "Dog", "hotdog", " dog ", "cat"}
Scalars == {Str(s) : s \in Strings} \cup {Num(42), Bool(TRUE), Null}
Keys == {"a", "dog", "constructor"}
Core == {Str("dog"), Str("Dog"), Num(42)}

SeqsUpTo(S, n) == UNION {[1..k -> S] : k \in 0..n}
Distinct(ks) == \A i, j \in 1..Len(ks) : i # j => ks[i] # ks[j]
KeySeqs(n) == {ks \in SeqsUpTo(Keys, n) : Distinct(ks)}
MkEntries(ks, vs) == [i \in 1..Len(ks) |-> Entry(ks[i], vs[i])]

FlatArrays(S) == {Arr(vs) : vs \in SeqsUpTo(S, MaxLen)}
FlatObjects(S) ==
  UNION {{Obj(MkEntries(ks, vs)) : vs \in [1..Len(ks) -> S]} : ks \in KeySeqs(MaxLen)}

\* the containers that hold x next to a target string: as the only child,
\* before or after the target string, and under each denylisted key
Wrappers(x) ==
  LET f == Str("dog") IN
  { Arr(<<x>>), Arr(<<f, x>>), Arr(<<x, f>>),
    Obj(<<Entry("a", x)>>), Obj(<<Entry("constructor", x)>>),
    Obj(<<Entry("__proto__", x)>>), Obj(<<Entry("prototype", x)>>),
    Obj(<<Entry("a", f), Entry("dog", x)>>),
    Obj(<<Entry("a", x), Entry("dog", f)>>) }

RECURSIVE Nested(_)
Nested(n) == IF n = 0 THEN Core \cup {Arr(<<>>), Obj(<<>>)}
             ELSE Nested(n - 1) \cup UNION {Wrappers(x) : x \in Nested(n - 1)}

Documents == Scalars \cup FlatArrays(Scalars) \cup FlatObjects(Scalars)
               \cup Nested(MaxNest)

Configs == [targetValue : {"dog"}, replacementValue : {"cat"},
            limit : 0..MaxLimit, maxDepth : 1..MaxCfgDepth]

VARIABLES data, config, replacementsMade, stack, pc, transformedData,
          appConfig, request, hpc, limit, error, response, earlier,
          env, proc

\* the state of the POST /transform handler around the call
\* the state of the process: its environment and how far its start got
pvars == <<env, proc>>

svars == <<appConfig, request, hpc, limit, error, response, earlier, env, proc>>

vars == <<data, config, replacementsMade, stack, pc, transformedData,
          appConfig, request, hpc, limit, error, response, earlier, env, proc>>

(***************************************************************************)
(* State of one call of replaceValues.                                     *)
(*   data, config       the arguments of the call                          *)
(*   replacementsMade   the counter shared by the whole traversal          *)
(*   stack              the active replaceInArray / replaceInObject loops, *)
(*                      outermost first                                    *)
(*   pc                 "start", "running", "done" or "failed" (the depth  *)
(*                      error was thrown out of replaceValues)             *)
(*   transformedData    the data field of the returned ReplacementResult   *)
(* and, of the POST /transform handler that makes the call,                *)
(*   appConfig          the AppConfig createApp was given                  *)
(*   request            req.query.limit and req.body                       *)
(*   hpc                "received", "engine" (replaceValues called),       *)
(*                      "catch" (an error was thrown inside try), "end";   *)
(*                      "none" when replaceValues is called directly       *)
(*   limit              the limit returned by parseLimit                   *)
(*   error              the error caught by the handler                    *)
(*   response           what was sent with res                             *)
(* and, of the process,                                                    *)
(*   earlier            how the requests handled before this one ended     *)
(*   env                process.env: the five variables getConfig reads    *)
(*   proc               "starting", "configured" (getConfig returned),     *)
(*                      "created" (createApp returned), "serving" (listen  *)
(*                      was called), "exited" (getConfig threw); "none"    *)
(*                      when replaceValues is called directly              *)
(***************************************************************************)
NoAppConfig == [targetValue |-> "", replacementValue |-> "",
                defaultReplacementLimit |-> 0, maxNestingDepth |-> 0]
NoConfig == [targetValue |-> "", replacementValue |-> "", limit |-> 0, maxDepth |-> 0]
NoRequest == [limit |-> [present |-> FALSE], body |-> Undefined]
NoError == [kind |-> "none"]
NoResponse == [sent |-> FALSE]
Unset == [set |-> FALSE]
NoEnv == [PORT |-> Unset, TARGET_VALUE |-> Unset, REPLACEMENT_VALUE |-> Unset,
          DEFAULT_REPLACEMENT_LIMIT |-> Unset, MAX_NESTING_DEPTH |-> Unset]

\* replaceValues called directly, outside a request
DirectCall ==
  /\ appConfig = NoAppConfig
  /\ request = NoRequest
  /\ hpc = "none"
  /\ limit = 0
  /\ error = NoError
  /\ response = NoResponse
  /\ earlier = {}
  /\ env = NoEnv
  /\ proc = "none"

Init ==
  /\ DirectCall
  /\ data \in Documents
  /\ config \in Configs
  /\ replacementsMade = 0
  /\ stack = <<>>
  /\ pc = "start"
  /\ transformedData = Undefined

\* "replacementsMade > config.limit" in place of ">="
LimitReachedStrict(made) == made > config.limit

\* the test "replacementsMade >= config.limit" of replace and of both loops
LimitReached(made) == made >= config.limit

\* value.toLowerCase() === config.targetValue, on the strings of the model
ToLowerCase(s) == IF s = "Dog" THEN "dog" ELSE s
IsTargetIgnoringCase(value) == ToLowerCase(value.str) = config.targetValue

\* value.includes(config.targetValue), on the strings of the model
Includes(s, t) == s = t \/ (t = "dog" /\ s \in {"hotdog", " dog "})
IsTargetSubstring(value) == Includes(value.str, config.targetValue)

\* value === config.targetValue
IsTarget(value) == value.str = config.targetValue

\* depth > config.maxDepth, off by one upwards
DepthExceededLate(depth) == depth > config.maxDepth + 1

\* depth > config.maxDepth, off by one downwards
DepthExceededEarly(depth) == depth >= config.maxDepth

\* the test "depth > config.maxDepth" of replace
DepthExceeded(depth) == depth > config.maxDepth

\* replace without its tests of the limit
replaceUnbounded(value, depth, made) ==
  IF DepthExceeded(depth) THEN [ctl |-> "throw"]
  ELSE IF IsString(value) THEN
    IF IsTarget(value)
    THEN [ctl |-> "return", value |-> Str(config.replacementValue), made |-> made + 1]
    ELSE [ctl |-> "return", value |-> value, made |-> made]
  ELSE IF IsArray(value) THEN [ctl |-> "call", fn |-> "replaceInArray", src |-> value.items]
  ELSE IF isPlainObject(value) THEN [ctl |-> "call", fn |-> "replaceInObject", src |-> value.entries]
  ELSE [ctl |-> "return", value |-> value, made |-> made]

\* replace without replacementsMade++
replaceUncounted(value, depth, made) ==
  IF DepthExceeded(depth) THEN [ctl |-> "throw"]
  ELSE IF LimitReached(made) THEN [ctl |-> "return", value |-> value, made |-> made]
  ELSE IF IsString(value) THEN
    IF IsTarget(value) /\ made < config.limit
    THEN [ctl |-> "return", value |-> Str(config.replacementValue), made |-> made]
    ELSE [ctl |-> "return", value |-> value, made |-> made]
  ELSE IF IsArray(value) THEN [ctl |-> "call", fn |-> "replaceInArray", src |-> value.items]
  ELSE IF isPlainObject(value) THEN [ctl |-> "call", fn |-> "replaceInObject", src |-> value.entries]
  ELSE [ctl |-> "return", value |-> value, made |-> made]

\* replace returning String(value) for the values of the other types
TextOf(value) ==
  IF value.kind = "number" THEN "42"
  ELSE IF value.kind = "boolean" THEN "true"
  ELSE "null"
replaceStringifying(value, depth, made) ==
  IF DepthExceeded(depth) THEN [ctl |-> "throw"]
  ELSE IF LimitReached(made) THEN [ctl |-> "return", value |-> value, made |-> made]
  ELSE IF IsString(value) THEN
    IF IsTarget(value) /\ made < config.limit
    THEN [ctl |-> "return", value |-> Str(config.replacementValue), made |-> made + 1]
    ELSE [ctl |-> "return", value |-> value, made |-> made]
  ELSE IF IsArray(value) THEN [ctl |-> "call", fn |-> "replaceInArray", src |-> value.items]
  ELSE IF isPlainObject(value) THEN [ctl |-> "call", fn |-> "replaceInObject", src |-> value.entries]
  ELSE [ctl |-> "return", value |-> Str(TextOf(value)), made |-> made]

\* replace handling strings only inside a container
replaceNestedOnly(value, depth, made) ==
  IF DepthExceeded(depth) THEN [ctl |-> "throw"]
  ELSE IF LimitReached(made) THEN [ctl |-> "return", value |-> value, made |-> made]
  ELSE IF IsString(value) THEN
    IF IsTarget(value) /\ made < config.limit /\ depth > 0
    THEN [ctl |-> "return", value |-> Str(config.replacementValue), made |-> made + 1]
    ELSE [ctl |-> "return", value |-> value, made |-> made]
  ELSE IF IsArray(value) THEN [ctl |-> "call", fn |-> "replaceInArray", src |-> value.items]
  ELSE IF isPlainObject(value) THEN [ctl |-> "call", fn |-> "replaceInObject", src |-> value.entries]
  ELSE [ctl |-> "return", value |-> value, made |-> made]

\* replace skipping, uncounted, a replacement that would change nothing
replaceSkippingNoop(value, depth, made) ==
  IF DepthExceeded(depth) THEN [ctl |-> "throw"]
  ELSE IF LimitReached(made) THEN [ctl |-> "return", value |-> value, made |-> made]
  ELSE IF IsString(value) THEN
    IF IsTarget(value) /\ made < config.limit /\ value.str # config.replacementValue
    THEN [ctl |-> "return", value |-> Str(config.replacementValue), made |-> made + 1]
    ELSE [ctl |-> "return", value |-> value, made |-> made]
  ELSE IF IsArray(value) THEN [ctl |-> "call", fn |-> "replaceInArray", src |-> value.items]
  ELSE IF isPlainObject(value) THEN [ctl |-> "call", fn |-> "replaceInObject", src |-> value.entries]
  ELSE [ctl |-> "return", value |-> value, made |-> made]

\* replace without its depth guard
replaceUnguarded(value, depth, made) ==
  IF LimitReached(made) THEN [ctl |-> "return", value |-> value, made |-> made]
  ELSE IF IsString(value) THEN
    IF IsTarget(value) /\ made < config.limit
    THEN [ctl |-> "return", value |-> Str(config.replacementValue), made |-> made + 1]
    ELSE [ctl |-> "return", value |-> value, made |-> made]
  ELSE IF IsArray(value) THEN [ctl |-> "call", fn |-> "replaceInArray", src |-> value.items]
  ELSE IF isPlainObject(value) THEN [ctl |-> "call", fn |-> "replaceInObject", src |-> value.entries]
  ELSE [ctl |-> "return", value |-> value, made |-> made]

\* The body of replace up to its return, its throw or its call of a loop
\* function.
replace(value, depth, made) ==
  IF DepthExceeded(depth) THEN [ctl |-> "throw"]
  ELSE IF LimitReached(made) THEN [ctl |-> "return", value |-> value, made |-> made]
  ELSE IF IsString(value) THEN
    IF IsTarget(value) /\ made < config.limit
    THEN [ctl |-> "return", value |-> Str(config.replacementValue), made |-> made + 1]
    ELSE [ctl |-> "return", value |-> value, made |-> made]
  ELSE IF IsArray(value) THEN [ctl |-> "call", fn |-> "replaceInArray", src |-> value.items]
  ELSE IF isPlainObject(value) THEN [ctl |-> "call", fn |-> "replaceInObject", src |-> value.entries]
  ELSE [ctl |-> "return", value |-> value, made |-> made]

\* a loop function entered: const result = [] / {} and the loop at its first
\* element
Frame(fn, src, depth) == [fn |-> fn, src |-> src, i |-> 1, out |-> <<>>, depth |-> depth]

Top == stack[Len(stack)]
Callers == SubSeq(stack, 1, Len(stack) - 1)

\* Deliver with the key passed through the replacement as well
ReplacedKey(k) == IF k = config.targetValue THEN config.replacementValue ELSE k
DeliverReplacingKey(stk, v) ==
  IF stk = <<>>
  THEN /\ transformedData' = v
       /\ pc' = "done"
       /\ stack' = <<>>
  ELSE LET top == stk[Len(stk)]
           slot == IF top.fn = "replaceInObject"
                   THEN Entry(ReplacedKey(top.src[top.i].key), v) ELSE v
       IN /\ stack' = [stk EXCEPT ![Len(stk)] =
                          [top EXCEPT !.out = Append(@, slot), !.i = @ + 1]]
          /\ pc' = "running"
          /\ UNCHANGED transformedData

\* A value handed back to the caller of replace: result.push(..) or
\* result[key] = .. in the loop that called, or transformedData at the root.
Deliver(stk, v) ==
  IF stk = <<>>
  THEN /\ transformedData' = v
       /\ pc' = "done"
       /\ stack' = <<>>
  ELSE LET top == stk[Len(stk)]
           slot == IF top.fn = "replaceInObject" THEN Entry(top.src[top.i].key, v) ELSE v
       IN /\ stack' = [stk EXCEPT ![Len(stk)] =
                          [top EXCEPT !.out = Append(@, slot), !.i = @ + 1]]
          /\ pc' = "running"
          /\ UNCHANGED transformedData

\* replace(value, depth) called from the loops stk
Invoke(stk, value, depth) ==
  LET r == replace(value, depth, replacementsMade) IN
  CASE r.ctl = "throw" ->
         /\ pc' = "failed"
         /\ stack' = <<>>
         /\ UNCHANGED <<replacementsMade, transformedData>>
    [] r.ctl = "return" ->
         /\ replacementsMade' = r.made
         /\ Deliver(stk, r.value)
    [] r.ctl = "call" ->
         /\ stack' = Append(stk, Frame(r.fn, r.src, depth))
         /\ pc' = "running"
         /\ UNCHANGED <<replacementsMade, transformedData>>

\* the loops writing into the array or object they iterate over, so that
\* the caller's document has become the result when the call returns
InputAfterStepInPlace == IF pc' = "done" THEN transformedData' ELSE data

\* The caller's document after a step: replace, replaceInArray and
\* replaceInObject only read value, arr and obj; every write goes to the
\* fresh result of the loop.
InputAfterStep == data

\* replaceValues with a counter that is not reset at the start of the call
CallWithStaleCounter ==
  /\ pc = "start"
  /\ \E m0 \in 0..1 :
       LET r == replace(data, 0, m0) IN
       CASE r.ctl = "throw" ->
              /\ pc' = "failed"
              /\ stack' = <<>>
              /\ UNCHANGED <<replacementsMade, transformedData>>
         [] r.ctl = "return" ->
              /\ replacementsMade' = r.made
              /\ Deliver(<<>>, r.value)
         [] r.ctl = "call" ->
              /\ stack' = <<Frame(r.fn, r.src, 0)>>
              /\ pc' = "running"
              /\ replacementsMade' = m0
              /\ UNCHANGED transformedData
  /\ data' = InputAfterStep
  /\ UNCHANGED svars
  /\ UNCHANGED config

\* replaceValues with its counter declared outside the function, so that a
\* call goes on from the count the call before it ended with
CallKeepingCounter ==
  /\ pc = "start"
  /\ Invoke(<<>>, data, 0)
  /\ data' = InputAfterStep
  /\ UNCHANGED svars
  /\ UNCHANGED config

\* replaceValues: let replacementsMade = 0; replace(data, 0)
Call ==
  /\ pc = "start"
  /\ LET r == replace(data, 0, 0) IN
       CASE r.ctl = "throw" ->
              /\ pc' = "failed"
              /\ stack' = <<>>
              /\ replacementsMade' = 0
              /\ UNCHANGED transformedData
         [] r.ctl = "return" ->
              /\ replacementsMade' = r.made
              /\ Deliver(<<>>, r.value)
         [] r.ctl = "call" ->
              /\ stack' = <<Frame(r.fn, r.src, 0)>>
              /\ pc' = "running"
              /\ replacementsMade' = 0
              /\ UNCHANGED transformedData
  /\ data' = InputAfterStep
  /\ UNCHANGED svars
  /\ UNCHANGED config

\* one iteration of the loop of replaceInArray
ArrayItem ==
  /\ pc = "running"
  /\ stack # <<>>
  /\ Top.fn = "replaceInArray"
  /\ Top.i <= Len(Top.src)
  /\ LET item == Top.src[Top.i] IN
       IF LimitReached(replacementsMade)
       THEN Deliver(stack, item) /\ UNCHANGED replacementsMade
       ELSE Invoke(stack, item, Top.depth + 1)
  /\ data' = InputAfterStep
  /\ UNCHANGED svars
  /\ UNCHANGED config

\* the loop of replaceInObject passing the value to replace before it tests
\* the key
ObjectEntryVisitingDropped ==
  /\ pc = "running"
  /\ stack # <<>>
  /\ Top.fn = "replaceInObject"
  /\ Top.i <= Len(Top.src)
  /\ LET key == Top.src[Top.i].key
         value == Top.src[Top.i].value
     IN IF key \in DANGEROUS_KEYS
        THEN LET r == replace(value, Top.depth + 1, replacementsMade) IN
             IF r.ctl = "throw"
             THEN /\ pc' = "failed"
                  /\ stack' = <<>>
                  /\ UNCHANGED <<replacementsMade, transformedData>>
             ELSE /\ replacementsMade' = (IF r.ctl = "return" THEN r.made ELSE replacementsMade)
                  /\ stack' = [stack EXCEPT ![Len(stack)].i = @ + 1]
                  /\ UNCHANGED <<pc, transformedData>>
        ELSE IF LimitReached(replacementsMade)
        THEN Deliver(stack, value) /\ UNCHANGED replacementsMade
        ELSE Invoke(stack, value, Top.depth + 1)
  /\ data' = InputAfterStep
  /\ UNCHANGED svars
  /\ UNCHANGED config

\* one iteration of the loop of replaceInObject
ObjectEntry ==
  /\ pc = "running"
  /\ stack # <<>>
  /\ Top.fn = "replaceInObject"
  /\ Top.i <= Len(Top.src)
  /\ LET key == Top.src[Top.i].key
         value == Top.src[Top.i].value
     IN IF key \in DANGEROUS_KEYS
        THEN /\ stack' = [stack EXCEPT ![Len(stack)].i = @ + 1]
             /\ UNCHANGED <<replacementsMade, pc, transformedData>>
        ELSE IF LimitReached(replacementsMade)
        THEN Deliver(stack, value) /\ UNCHANGED replacementsMade
        ELSE Invoke(stack, value, Top.depth + 1)
  /\ data' = InputAfterStep
  /\ UNCHANGED svars
  /\ UNCHANGED config

\* replaceInArray: return result
ArrayReturn ==
  /\ pc = "running"
  /\ stack # <<>>
  /\ Top.fn = "replaceInArray"
  /\ Top.i > Len(Top.src)
  /\ Deliver(Callers, Arr(Top.out))
  /\ data' = InputAfterStep
  /\ UNCHANGED svars
  /\ UNCHANGED <<config, replacementsMade>>

\* replaceInObject: return result
ObjectReturn ==
  /\ pc = "running"
  /\ stack # <<>>
  /\ Top.fn = "replaceInObject"
  /\ Top.i > Len(Top.src)
  /\ Deliver(Callers, Obj(Top.out))
  /\ data' = InputAfterStep
  /\ UNCHANGED svars
  /\ UNCHANGED <<config, replacementsMade>>

Next == Call \/ ArrayItem \/ ObjectEntry \/ ArrayReturn \/ ObjectReturn

Spec == Init /\ [][Next]_vars

\* The calls made with a configuration whose replacementValue is its
\* targetValue.
SameValueConfigs == [targetValue : {"dog"}, replacementValue : {"dog"},
                     limit : 0..MaxLimit, maxDepth : 1..MaxCfgDepth]
SameValueInit ==
  /\ DirectCall
  /\ data \in Nested(MaxNest) \cup FlatArrays(Scalars)
  /\ config \in SameValueConfigs
  /\ replacementsMade = 0
  /\ stack = <<>>
  /\ pc = "start"
  /\ transformedData = Undefined
SameValueSpec == SameValueInit /\ [][Next]_vars

(***************************************************************************)
(* The POST /transform handler.                                            *)
(*                                                                         *)
(* Texts (query values, error messages) are sequences: a query value is    *)
(* the sequence of its characters, a message the sequence of its words.    *)
(***************************************************************************)
Digits == <<"0", "1", "2", "3", "4", "5", "6", "7", "8", "9">>
IsDigit(c) == \E i \in 1..Len(Digits) : Digits[i] = c
DigitValue(c) == (CHOOSE i \in 1..Len(Digits) : Digits[i] = c) - 1

\* parseInt(text, 10): leading white space skipped, an optional sign, then
\* the longest prefix of decimal digits; NaN when that prefix is empty
RECURSIVE TrimStart(_)
TrimStart(cs) == IF cs # <<>> /\ Head(cs) = " " THEN TrimStart(Tail(cs)) ELSE cs
RECURSIVE DigitPrefix(_)
DigitPrefix(cs) ==
  IF cs # <<>> /\ IsDigit(Head(cs)) THEN <<Head(cs)>> \o DigitPrefix(Tail(cs)) ELSE <<>>
RECURSIVE DigitsToNumber(_, _)
DigitsToNumber(cs, acc) ==
  IF cs = <<>> THEN acc ELSE DigitsToNumber(Tail(cs), 10 * acc + DigitValue(Head(cs)))
NaN == [nan |-> TRUE]
parseInt(cs) ==
  LET S == TrimStart(cs)
      negative == S # <<>> /\ Head(S) = "-"
      unsigned == IF S # <<>> /\ Head(S) \in {"+", "-"} THEN Tail(S) ELSE S
      Z == DigitPrefix(unsigned)
  IN IF Z = <<>> THEN NaN
     ELSE [nan |-> FALSE,
           n |-> IF negative THEN 0 - DigitsToNumber(Z, 0) ELSE DigitsToNumber(Z, 0)]

Error(message) == [kind |-> "Error", message |-> message]

\* parseLimit: [ok, limit] or [ok, error] for the error it throws
parseLimit(limitParam, defaultLimit) ==
  IF ~limitParam.present THEN [ok |-> TRUE, limit |-> defaultLimit]
  ELSE LET parsed == parseInt(limitParam.text) IN
       IF parsed.nan
       THEN [ok |-> FALSE, error |-> Error(<<"Limit", "must", "be", "a", "valid", "number">>)]
       ELSE IF parsed.n < 0
       THEN [ok |-> FALSE, error |-> Error(<<"Limit", "must", "be", ">=", "0">>)]
       ELSE [ok |-> TRUE, limit |-> parsed.n]

\* the Error thrown by replace
DepthError(maxDepth) ==
  Error(<<"Maximum", "nesting", "depth", "of", Digits[maxDepth + 1], "exceeded">>)

\* error.message.toLowerCase().includes(word), by whole words
LowerWord(w) ==
  IF w = "Limit" THEN "limit" ELSE IF w = "Maximum" THEN "maximum" ELSE w
MessageIncludes(message, word) ==
  \E i \in 1..Len(message) : LowerWord(message[i]) = word

ErrorResponse(status, message) ==
  [sent |-> TRUE, status |-> status, body |-> [error |-> message]]

\* handleError without its branch for the depth error
handleErrorNoDepthBranch(err) ==
  IF err.kind = "Error"
  THEN ErrorResponse(400, err.message)
  ELSE ErrorResponse(500, <<"Internal", "server", "error">>)

\* handleError: the response it sends
handleError(err) ==
  IF err.kind = "Error"
  THEN IF MessageIncludes(err.message, "depth")
       THEN ErrorResponse(400, <<"Maximum", "nesting", "depth", "exceeded">>)
       ELSE IF MessageIncludes(err.message, "limit")
       THEN ErrorResponse(400, err.message)
       ELSE ErrorResponse(400, err.message)
  ELSE ErrorResponse(500, <<"Internal", "server", "error">>)

\* the body of the 200 response, reporting the configured default
SuccessBodyDefaultLimit ==
  [data |-> transformedData,
   meta |-> [replacementsMade |-> replacementsMade,
             replacementLimit |-> appConfig.defaultReplacementLimit]]

\* the body of the 200 response
SuccessBody ==
  [data |-> transformedData,
   meta |-> [replacementsMade |-> replacementsMade, replacementLimit |-> limit]]

\* the requests and application configurations explored
LimitTexts ==
  { <<"0">>, <<"1">>, <<"2">>, <<"1", "0">>, <<"+", "2">>, <<" ", "1">>,
    <<"-", "1">>, <<"-", "0">>, <<>>, <<"a", "b", "c">>,
    <<"2", "a", "b", "c">>, <<"1", ".", "5">> }
LimitParams == {[present |-> FALSE]} \cup {[present |-> TRUE, text |-> t] : t \in LimitTexts}
\* req.body as express.json() leaves it: an array or an object (the parser
\* rejects a document that is a single scalar)
Bodies ==
  { b \in Nested(1) \cup Wrappers(Arr(<<Str("dog")>>))
             \cup Wrappers(Obj(<<Entry("a", Str("dog"))>>)) : IsContainer(b) }
AppConfigs == [targetValue : {"dog"}, replacementValue : {"cat"},
               defaultReplacementLimit : 0..MaxLimit,
               maxNestingDepth : 1..MaxCfgDepth]

\* what the engine can throw besides its depth error: the runtime's
\* RangeError when the call stack is exhausted, or a value that is no Error
UnexpectedErrors ==
  { Error(<<"Maximum", "call", "stack", "size", "exceeded">>), [kind |-> "thrown value"] }

ServerInit ==
  /\ appConfig \in AppConfigs
  /\ request \in [limit : LimitParams, body : Bodies]
  /\ hpc = "received"
  /\ limit = 0
  /\ error = NoError
  /\ response = NoResponse
  /\ earlier = {}
  /\ env = NoEnv
  /\ proc = "serving"
  /\ data = Undefined
  /\ config = NoConfig
  /\ replacementsMade = 0
  /\ stack = <<>>
  /\ pc = "idle"
  /\ transformedData = Undefined

\* the handler calling replaceValues before it validates the limit
TransformStartEngineFirst ==
  /\ hpc = "received"
  /\ LET r == parseLimit(request.limit, appConfig.defaultReplacementLimit) IN
       /\ limit' = IF r.ok THEN r.limit ELSE appConfig.defaultReplacementLimit
       /\ config' = [targetValue |-> appConfig.targetValue,
                     replacementValue |-> appConfig.replacementValue,
                     limit |-> limit',
                     maxDepth |-> appConfig.maxNestingDepth]
       /\ data' = request.body
       /\ pc' = "start"
       /\ IF r.ok THEN hpc' = "engine" /\ UNCHANGED error
                  ELSE hpc' = "catch" /\ error' = r.error
  /\ UNCHANGED <<appConfig, request, response, replacementsMade, stack, transformedData,
                 earlier, env, proc>>

\* app.post('/transform'): parseLimit, then the ReplacementConfig is built
\* and replaceValues is called with req.body
TransformStart ==
  /\ hpc = "received"
  /\ LET r == parseLimit(request.limit, appConfig.defaultReplacementLimit) IN
       IF r.ok
       THEN /\ limit' = r.limit
            /\ config' = [targetValue |-> appConfig.targetValue,
                          replacementValue |-> appConfig.replacementValue,
                          limit |-> r.limit,
                          maxDepth |-> appConfig.maxNestingDepth]
            /\ data' = request.body
            /\ pc' = "start"
            /\ hpc' = "engine"
            /\ UNCHANGED error
       ELSE /\ error' = r.error
            /\ hpc' = "catch"
            /\ UNCHANGED <<limit, config, data, pc>>
  /\ UNCHANGED <<appConfig, request, response, replacementsMade, stack, transformedData,
                 earlier, env, proc>>

\* res.json({data, meta}) after replaceValues returned
TransformRespond ==
  /\ hpc = "engine"
  /\ pc = "done"
  /\ response' = [sent |-> TRUE, status |-> 200, body |-> SuccessBody]
  /\ hpc' = "end"
  /\ UNCHANGED <<data, config, replacementsMade, stack, pc, transformedData,
                 appConfig, request, limit, error, earlier,
                 env, proc>>

\* the error thrown by replace reaches the catch of the handler
TransformCatchDepth ==
  /\ hpc = "engine"
  /\ pc = "failed"
  /\ error' = DepthError(config.maxDepth)
  /\ hpc' = "catch"
  /\ UNCHANGED <<data, config, replacementsMade, stack, pc, transformedData,
                 appConfig, request, limit, response, earlier,
                 env, proc>>

\* replaceValues throws something that is neither parseLimit's nor
\* replace's error; the call is abandoned where it stands
TransformCatchUnexpected ==
  /\ hpc = "engine"
  /\ pc \in {"start", "running"}
  /\ error' \in UnexpectedErrors
  /\ pc' = "aborted"
  /\ hpc' = "catch"
  /\ UNCHANGED <<data, config, replacementsMade, stack, transformedData,
                 appConfig, request, limit, response, earlier,
                 env, proc>>

\* the catch block only logging the error
HandleErrorLogOnly ==
  /\ hpc = "catch"
  /\ hpc' = "end"
  /\ UNCHANGED <<data, config, replacementsMade, stack, pc, transformedData,
                 appConfig, request, limit, error, response, earlier,
                 env, proc>>

\* catch (error) { handleError(error, res) }
HandleError ==
  /\ hpc = "catch"
  /\ response' = handleError(error)
  /\ hpc' = "end"
  /\ UNCHANGED <<data, config, replacementsMade, stack, pc, transformedData,
                 appConfig, request, limit, error, earlier,
                 env, proc>>

ServerNext ==
  \/ TransformStart \/ Call \/ ArrayItem \/ ObjectEntry \/ ArrayReturn \/ ObjectReturn
  \/ TransformRespond \/ TransformCatchDepth \/ TransformCatchUnexpected \/ HandleError

ServerSpec == ServerInit /\ [][ServerNext]_vars

\* the handler is one synchronous function: it runs to its end
ServerLiveSpec == ServerSpec /\ WF_vars(ServerNext)

(***************************************************************************)
(* A process serving one request after the other.                          *)
(***************************************************************************)
DeepBody == Arr(<<Str("dog"), Arr(<<Arr(<<Arr(<<Arr(<<Str("dog")>>)>>)>>)>>)>>)
SessionBodies ==
  { Arr(<<Str("dog")>>), Arr(<<Str("dog"), Str("dog"), Str("dog")>>), DeepBody,
    Obj(<<Entry("a", Str("dog")), Entry("constructor", Str("dog"))>>) }
SessionLimits ==
  { [present |-> FALSE], [present |-> TRUE, text |-> <<"1">>],
    [present |-> TRUE, text |-> <<"2">>], [present |-> TRUE, text |-> <<"-", "1">>] }
SessionRequests == [limit : SessionLimits, body : SessionBodies]

SessionInit ==
  /\ appConfig \in AppConfigs
  /\ request \in SessionRequests
  /\ hpc = "received"
  /\ limit = 0
  /\ error = NoError
  /\ response = NoResponse
  /\ earlier = {}
  /\ env = NoEnv
  /\ proc = "serving"
  /\ data = Undefined
  /\ config = NoConfig
  /\ replacementsMade = 0
  /\ stack = <<>>
  /\ pc = "idle"
  /\ transformedData = Undefined

\* how the request that was just answered ended
Ending ==
  IF response.status = 200
  THEN IF replacementsMade = limit THEN "limit reached" ELSE "success"
  ELSE IF pc = "failed" THEN "depth exceeded"
  ELSE IF pc = "idle" THEN "invalid limit"
  ELSE "unexpected error"

\* the handler is invoked for the next request: req, res and the locals of
\* the handler are new; the locals of the finished call of replaceValues are
\* gone (the model keeps the last count until the next call declares its own)
NextRequest ==
  /\ hpc = "end"
  /\ earlier' = earlier \cup {Ending}
  /\ request' \in SessionRequests
  /\ hpc' = "received"
  /\ limit' = 0
  /\ error' = NoError
  /\ response' = NoResponse
  /\ data' = Undefined
  /\ config' = NoConfig
  /\ stack' = <<>>
  /\ pc' = "idle"
  /\ transformedData' = Undefined
  /\ UNCHANGED <<appConfig, replacementsMade, env, proc>>

SessionNext == ServerNext \/ NextRequest

SessionSpec == SessionInit /\ [][SessionNext]_vars

(***************************************************************************)
(* The application createApp builds: express.json(), the routes, the 404   *)
(* handler and the global error handler.                                   *)
(*                                                                         *)
(* A request carries its route and its body as sent (request.wire): none,  *)
(* a JSON text (the document with the keys of every object in the order of *)
(* the text), a text that is no JSON, a text over 1 MB, or a text in a     *)
(* charset the parser does not support.                                    *)
(***************************************************************************)
\* the order in which a JavaScript object yields its own keys: the keys
\* that are array indices in ascending order, then the other keys in the
\* order they were added
IsIndexEntry(e) == IsDigit(e.key)
IsNameEntry(e) == ~IsDigit(e.key)
RECURSIVE AscendingIndices(_)
AscendingIndices(es) ==
  IF es = <<>> THEN <<>>
  ELSE LET m == CHOOSE i \in 1..Len(es) :
                  \A j \in 1..Len(es) : DigitValue(es[i].key) <= DigitValue(es[j].key)
       IN <<es[m]>> \o AscendingIndices(SubSeq(es, 1, m - 1) \o SubSeq(es, m + 1, Len(es)))
OwnKeysOrder(es) == AscendingIndices(SelectSeq(es, IsIndexEntry)) \o SelectSeq(es, IsNameEntry)

\* JSON.parse of a JSON text, as Object.entries lists the result
RECURSIVE JsonParse(_)
JsonParse(doc) ==
  IF IsArray(doc) THEN Arr([i \in 1..Len(doc.items) |-> JsonParse(doc.items[i])])
  ELSE IF isPlainObject(doc)
  THEN LET es == OwnKeysOrder(doc.entries) IN
       Obj([i \in 1..Len(es) |-> Entry(es[i].key, JsonParse(es[i].value))])
  ELSE doc

MiddlewareError(type) == [kind |-> "middleware error", type |-> type]

\* the global error handler without its branch for entity.too.large
errorHandlerParseOnly(err) ==
  IF err.type = "entity.parse.failed"
  THEN ErrorResponse(400, <<"Invalid", "JSON", "payload">>)
  ELSE ErrorResponse(500, <<"Internal", "server", "error">>)

\* the global error handler: the response it sends
errorHandler(err) ==
  IF err.type = "entity.parse.failed"
  THEN ErrorResponse(400, <<"Invalid", "JSON", "payload">>)
  ELSE IF err.type = "entity.too.large"
  THEN ErrorResponse(413, <<"Payload", "too", "large">>)
  ELSE ErrorResponse(500, <<"Internal", "server", "error">>)

\* the requests explored
Routes == {"POST /transform", "GET /health", "GET /unknown"}
WireDocuments ==
  { Str("dog"),
    Obj(<<Entry("b", Str("dog")), Entry("a", Str("dog"))>>),
    Obj(<<Entry("b", Str("dog")), Entry("1", Str("dog"))>>),
    Obj(<<Entry("2", Str("dog")), Entry("a", Str("dog")), Entry("1", Str("dog"))>>),
    Arr(<<Obj(<<Entry("b", Str("dog")), Entry("0", Str("Dog"))>>), Str("dog")>>),
    Arr(<<Str("dog"), Obj(<<Entry("a", Str("dog")), Entry("constructor", Str("dog"))>>)>>),
    DeepBody }
Wires ==
  { [kind |-> "none"], [kind |-> "no JSON"], [kind |-> "over 1mb"],
    [kind |-> "unsupported charset"] }
    \cup {[kind |-> "JSON", doc |-> d] : d \in WireDocuments}
AppRequests == [route : Routes, limit : SessionLimits, wire : Wires, body : {Undefined}]

AppInit ==
  /\ appConfig \in AppConfigs
  /\ request \in AppRequests
  /\ hpc = "arrived"
  /\ limit = 0
  /\ error = NoError
  /\ response = NoResponse
  /\ earlier = {}
  /\ env = NoEnv
  /\ proc = "serving"
  /\ data = Undefined
  /\ config = NoConfig
  /\ replacementsMade = 0
  /\ stack = <<>>
  /\ pc = "idle"
  /\ transformedData = Undefined

\* app.use(express.json({ limit: '1mb' })): the body is checked against the
\* limit, then decoded; only an array or an object is accepted.  Without a
\* body req.body is {} or stays undefined, depending on the Express version.
JsonBodyParser ==
  /\ hpc = "arrived"
  /\ LET wire == request.wire IN
       CASE wire.kind = "over 1mb" ->
              /\ error' = MiddlewareError("entity.too.large")
              /\ hpc' = "error handler"
              /\ UNCHANGED request
         [] wire.kind = "unsupported charset" ->
              /\ error' = MiddlewareError("charset.unsupported")
              /\ hpc' = "error handler"
              /\ UNCHANGED request
         [] wire.kind = "no JSON" \/ (wire.kind = "JSON" /\ ~IsContainer(wire.doc)) ->
              /\ error' = MiddlewareError("entity.parse.failed")
              /\ hpc' = "error handler"
              /\ UNCHANGED request
         [] wire.kind = "JSON" /\ IsContainer(wire.doc) ->
              /\ request' = [request EXCEPT !.body = JsonParse(wire.doc)]
              /\ hpc' = "routing"
              /\ UNCHANGED error
         [] wire.kind = "none" ->
              /\ \E b \in {Obj(<<>>), Undefined} : request' = [request EXCEPT !.body = b]
              /\ hpc' = "routing"
              /\ UNCHANGED error
  /\ UNCHANGED <<data, config, replacementsMade, stack, pc, transformedData,
                 appConfig, limit, response, earlier, env, proc>>

\* app.get('/health', ..)
HealthRoute ==
  /\ hpc = "routing"
  /\ request.route = "GET /health"
  /\ response' = [sent |-> TRUE, status |-> 200, body |-> [status |-> "ok"]]
  /\ hpc' = "end"
  /\ UNCHANGED <<data, config, replacementsMade, stack, pc, transformedData,
                 appConfig, request, limit, error, earlier, env, proc>>

\* app.post('/transform', ..) matches: its handler is entered
TransformRoute ==
  /\ hpc = "routing"
  /\ request.route = "POST /transform"
  /\ hpc' = "received"
  /\ UNCHANGED <<data, config, replacementsMade, stack, pc, transformedData,
                 appConfig, request, limit, error, response, earlier, env, proc>>

\* the 404 handler for unknown routes
NotFound ==
  /\ hpc = "routing"
  /\ request.route \notin {"GET /health", "POST /transform"}
  /\ response' = ErrorResponse(404, <<"Not", "found">>)
  /\ hpc' = "end"
  /\ UNCHANGED <<data, config, replacementsMade, stack, pc, transformedData,
                 appConfig, request, limit, error, earlier, env, proc>>

\* the global error handler
ErrorMiddleware ==
  /\ hpc = "error handler"
  /\ response' = errorHandler(error)
  /\ hpc' = "end"
  /\ UNCHANGED <<data, config, replacementsMade, stack, pc, transformedData,
                 appConfig, request, limit, error, earlier, env, proc>>

AppNext ==
  \/ JsonBodyParser \/ HealthRoute \/ TransformRoute \/ NotFound \/ ErrorMiddleware
  \/ ServerNext

AppSpec == AppInit /\ [][AppNext]_vars

(***************************************************************************)
(* The start of the process: getConfig, createApp, listen.                 *)
(*                                                                         *)
(* The values of environment variables are texts (sequences of             *)
(* characters), and so are the strings getConfig makes of them.            *)
(***************************************************************************)
RECURSIVE TrimEnd(_)
TrimEnd(cs) ==
  IF cs # <<>> /\ cs[Len(cs)] = " " THEN TrimEnd(SubSeq(cs, 1, Len(cs) - 1)) ELSE cs
Trim(cs) == TrimEnd(TrimStart(cs))

Thrown(message) == [ok |-> FALSE, error |-> Error(message)]
Returned(v) == [ok |-> TRUE, value |-> v]

\* value ? parseInt(value, 10) : defaultValue
EnvNumber(value, defaultValue) ==
  IF value.set /\ value.text # <<>> THEN parseInt(value.text)
  ELSE [nan |-> FALSE, n |-> defaultValue]

parsePort(value, defaultValue) ==
  LET port == EnvNumber(value, defaultValue) IN
  IF port.nan THEN Thrown(<<"PORT", "must", "be", "a", "valid", "number">>)
  ELSE IF port.n < 1 \/ port.n > 65535
  THEN Thrown(<<"PORT", "must", "be", "between", "1", "and", "65535">>)
  ELSE Returned(port.n)

parsePositiveInt(value, defaultValue, name) ==
  LET parsed == EnvNumber(value, defaultValue) IN
  IF parsed.nan THEN Thrown(<<name, "must", "be", "a", "valid", "number">>)
  ELSE IF parsed.n < 0 THEN Thrown(<<name, "must", "be", ">=", "0">>)
  ELSE Returned(parsed.n)

parseDepth(value, defaultValue) ==
  LET depth == EnvNumber(value, defaultValue) IN
  IF depth.nan THEN Thrown(<<"MAX_NESTING_DEPTH", "must", "be", "a", "valid", "number">>)
  ELSE IF depth.n < 1 THEN Thrown(<<"MAX_NESTING_DEPTH", "must", "be", ">=", "1">>)
  ELSE Returned(depth.n)

\* (value ?? defaultValue).trim()
parseString(value, defaultValue, name) ==
  LET trimmed == Trim(IF value.set THEN value.text ELSE defaultValue) IN
  IF trimmed = <<>> THEN Thrown(<<name, "cannot", "be", "empty">>)
  ELSE Returned(trimmed)

\* getConfig: the properties are evaluated in their order, the first throw
\* ends the call
getConfig(e) ==
  LET port == parsePort(e.PORT, 3000)
      targetValue == parseString(e.TARGET_VALUE, <<"d", "o", "g">>, "TARGET_VALUE")
      replacementValue ==
        parseString(e.REPLACEMENT_VALUE, <<"c", "a", "t">>, "REPLACEMENT_VALUE")
      defaultReplacementLimit ==
        parsePositiveInt(e.DEFAULT_REPLACEMENT_LIMIT, 100, "DEFAULT_REPLACEMENT_LIMIT")
      maxNestingDepth == parseDepth(e.MAX_NESTING_DEPTH, 50)
  IN IF ~port.ok THEN port
     ELSE IF ~targetValue.ok THEN targetValue
     ELSE IF ~replacementValue.ok THEN replacementValue
     ELSE IF ~defaultReplacementLimit.ok THEN defaultReplacementLimit
     ELSE IF ~maxNestingDepth.ok THEN maxNestingDepth
     ELSE Returned([port |-> port.value,
                    targetValue |-> targetValue.value,
                    replacementValue |-> replacementValue.value,
                    defaultReplacementLimit |-> defaultReplacementLimit.value,
                    maxNestingDepth |-> maxNestingDepth.value])

\* the environments explored
Set(text) == [set |-> TRUE, text |-> text]
PortValues ==
  { Unset, Set(<<>>), Set(<<"8", "0", "8", "0">>), Set(<<"0">>), Set(<<"1">>),
    Set(<<"6", "5", "5", "3", "5">>), Set(<<"6", "5", "5", "3", "6">>),
    Set(<<"-", "1">>), Set(<<"a", "b", "c">>), Set(<<"8", "0", "a", "b", "c">>) }
TargetValues ==
  { Unset, Set(<<>>), Set(<<" ", " ">>), Set(<<"f", "o", "o">>),
    Set(<<" ", "d", "o", "g", " ">>) }
ReplacementValues == { Unset, Set(<<>>), Set(<<"b", "a", "r">>) }
DefaultLimitValues ==
  { Unset, Set(<<"0">>), Set(<<"5", "0">>), Set(<<"-", "1">>),
    Set(<<"x", "y", "z">>), Set(<<"5", "x">>) }
DepthValues ==
  { Unset, Set(<<"0">>), Set(<<"1">>), Set(<<"1", "0", "0">>), Set(<<"-", "3">>),
    Set(<<"a", "b", "c">>) }
Envs == [PORT : PortValues, TARGET_VALUE : TargetValues,
         REPLACEMENT_VALUE : ReplacementValues,
         DEFAULT_REPLACEMENT_LIMIT : DefaultLimitValues,
         MAX_NESTING_DEPTH : DepthValues]

StartupInit ==
  /\ env \in Envs
  /\ proc = "starting"
  /\ appConfig = NoAppConfig
  /\ request = NoRequest
  /\ hpc = "none"
  /\ limit = 0
  /\ error = NoError
  /\ response = NoResponse
  /\ earlier = {}
  /\ data = Undefined
  /\ config = NoConfig
  /\ replacementsMade = 0
  /\ stack = <<>>
  /\ pc = "idle"
  /\ transformedData = Undefined

\* const config = getConfig(); an error it throws is not caught and ends
\* the process
LoadConfig ==
  /\ proc = "starting"
  /\ LET r == getConfig(env) IN
       IF r.ok THEN appConfig' = r.value /\ proc' = "configured" /\ UNCHANGED error
       ELSE proc' = "exited" /\ error' = r.error /\ UNCHANGED appConfig
  /\ UNCHANGED <<data, config, replacementsMade, stack, pc, transformedData,
                 request, hpc, limit, response, earlier, env>>

\* const app = createApp(config)
CreateApp ==
  /\ proc = "configured"
  /\ proc' = "created"
  /\ UNCHANGED <<data, config, replacementsMade, stack, pc, transformedData,
                 appConfig, request, hpc, limit, error, response, earlier, env>>

\* app.listen(config.port, ..)
Listen ==
  /\ proc = "created"
  /\ proc' = "serving"
  /\ UNCHANGED <<data, config, replacementsMade, stack, pc, transformedData,
                 appConfig, request, hpc, limit, error, response, earlier, env>>

StartupNext == LoadConfig \/ CreateApp \/ Listen

StartupSpec == StartupInit /\ [][StartupNext]_vars

TypeOK ==
  /\ pc \in {"idle", "start", "running", "done", "failed", "aborted"}
  /\ replacementsMade \in Nat
  /\ (transformedData # Undefined) => (pc = "done")

(***************************************************************************)
(* Reference notions over documents, independent of the traversal.         *)
(***************************************************************************)
Min(a, b) == IF a <= b THEN a ELSE b

EntryValues(entries) == [i \in 1..Len(entries) |-> entries[i].value]
EntryKeys(entries) == [i \in 1..Len(entries) |-> entries[i].key]
IsSafeEntry(e) == e.key \notin DANGEROUS_KEYS

\* the values directly inside a container
Children(v) ==
  IF IsArray(v) THEN v.items
  ELSE IF isPlainObject(v) THEN EntryValues(v.entries)
  ELSE <<>>

\* the values directly inside a container, outside denylisted entries
KeptChildren(v) ==
  IF IsArray(v) THEN v.items
  ELSE IF isPlainObject(v) THEN EntryValues(SelectSeq(v.entries, IsSafeEntry))
  ELSE <<>>

\* depth of the deepest value of a document, the root being at depth 0
RECURSIVE MaxDepthOf(_), MaxDepthOfAll(_)
MaxDepthOf(v) == IF Children(v) = <<>> THEN 0 ELSE 1 + MaxDepthOfAll(Children(v))
MaxDepthOfAll(vs) ==
  IF vs = <<>> THEN 0
  ELSE LET h == MaxDepthOf(Head(vs))
           t == MaxDepthOfAll(Tail(vs))
       IN IF h >= t THEN h ELSE t

\* some object of the document, at any level, has a denylisted key
RECURSIVE HasDangerousKey(_), AnyHasDangerousKey(_)
HasDangerousKey(v) ==
  \/ isPlainObject(v) /\ \E i \in 1..Len(v.entries) : v.entries[i].key \in DANGEROUS_KEYS
  \/ AnyHasDangerousKey(Children(v))
AnyHasDangerousKey(vs) ==
  vs # <<>> /\ (HasDangerousKey(Head(vs)) \/ AnyHasDangerousKey(Tail(vs)))

\* the values of a document in depth-first order with their depths,
\* leaving out what lies under a denylisted key
RECURSIVE Preorder(_, _), PreorderAll(_, _)
Preorder(v, d) == <<[val |-> v, depth |-> d]>> \o PreorderAll(KeptChildren(v), d + 1)
PreorderAll(vs, d) ==
  IF vs = <<>> THEN <<>> ELSE Preorder(Head(vs), d) \o PreorderAll(Tail(vs), d)

IsTargetString(v) == IsString(v) /\ v.str = config.targetValue

\* number of target strings among the first n values of a depth-first list
TargetsAmong(seq, n) == Cardinality({j \in 1..n : IsTargetString(seq[j].val)})

\* a value deeper than maxDepth, outside denylisted entries, that fewer
\* than limit target strings precede in depth-first order
TooDeepWithinBudget ==
  LET seq == Preorder(data, 0) IN
  \E i \in 1..Len(seq) :
    /\ seq[i].depth > config.maxDepth
    /\ TargetsAmong(seq, i - 1) < config.limit

Finished == pc \in {"done", "failed"}

(***************************************************************************)
(* C1: 0 <= replacementsMade <= limit in every state of the traversal and  *)
(* in the returned result; the counter changes only by +1, and exactly in  *)
(* the steps that write replacementValue in place of a target string.      *)
(***************************************************************************)
\* the step writes one slot of the innermost loop, or the root result
WritesSlot ==
  \/ stack = <<>> /\ pc' = "done"
  \/ /\ stack # <<>> /\ Len(stack') = Len(stack)
     /\ Len(stack'[Len(stack')].out) = Len(Top.out) + 1
     /\ Top.i <= Len(Top.src)
SlotSource ==
  IF stack = <<>> THEN data
  ELSE IF Top.fn = "replaceInObject" THEN Top.src[Top.i].value ELSE Top.src[Top.i]
SlotWritten ==
  IF stack = <<>> THEN transformedData'
  ELSE LET o == stack'[Len(stack')].out IN
       IF Top.fn = "replaceInObject" THEN o[Len(o)].value ELSE o[Len(o)]
CountStep ==
  /\ replacementsMade' \in {replacementsMade, replacementsMade + 1}
  /\ replacementsMade' = replacementsMade + 1 =>
       WritesSlot /\ IsTargetString(SlotSource) /\ SlotWritten = Str(config.replacementValue)
  /\ (WritesSlot /\ SlotWritten # SlotSource) => replacementsMade' = replacementsMade + 1
C1_BudgetInvariant ==
  /\ [](0 <= replacementsMade /\ replacementsMade <= config.limit)
  /\ [][CountStep]_vars
C1_Witness ==
  /\ pc = "done"
  /\ config.limit > 0
  /\ replacementsMade = config.limit
  /\ TargetsAmong(Preorder(data, 0), Len(Preorder(data, 0))) > config.limit

(***************************************************************************)
(* C2: the returned document has no object entry with a denylisted key at  *)
(* any nesting level, whatever the limit.                                  *)
(***************************************************************************)
C2_NoDangerousKeyInOutput == pc = "done" => ~HasDangerousKey(transformedData)

C4_WithinDepthAccepted ==
  MaxDepthOf(data) <= config.maxDepth =>
    /\ pc # "failed"
    /\ pc = "running" => stack # <<>>
C4_Witness ==
  /\ pc = "done"
  /\ MaxDepthOf(data) = config.maxDepth
  /\ replacementsMade > 0
  /\ replacementsMade < config.limit

\* the scalar values of a document in depth-first order, outside
\* denylisted entries
IsLeaf(n) == ~IsContainer(n.val)
Leaves(v) == LET seq == SelectSeq(Preorder(v, 0), IsLeaf) IN [i \in 1..Len(seq) |-> seq[i].val]

\* number of target strings of a sequence of values
RECURSIVE CountTargets(_)
CountTargets(vs) ==
  IF vs = <<>> THEN 0
  ELSE (IF IsTargetString(Head(vs)) THEN 1 ELSE 0) + CountTargets(Tail(vs))

\* a sequence of values with its first m target strings replaced
RECURSIVE ReplaceFirst(_, _)
ReplaceFirst(vs, m) ==
  IF vs = <<>> THEN <<>>
  ELSE IF m > 0 /\ IsTargetString(Head(vs))
       THEN <<Str(config.replacementValue)>> \o ReplaceFirst(Tail(vs), m - 1)
       ELSE <<Head(vs)>> \o ReplaceFirst(Tail(vs), m)

(***************************************************************************)
(* C5: with k target strings outside denylisted entries and no depth       *)
(* failure, exactly the first min(limit, k) of them in depth-first order   *)
(* are replaced, the later ones stay, and replacementsMade = min(limit,k). *)
(***************************************************************************)
C5_FirstMatchesReplaced ==
  pc = "done" =>
    LET k == CountTargets(Leaves(data)) IN
    /\ replacementsMade = Min(config.limit, k)
    /\ Leaves(transformedData) = ReplaceFirst(Leaves(data), Min(config.limit, k))
C5_Witness ==
  /\ pc = "done"
  /\ config.limit = 1
  /\ replacementsMade = 1
  /\ IsArray(data) /\ Len(data.items) = 2
  /\ IsContainer(data.items[1])
  /\ CountTargets(Leaves(data.items[1])) = 1
  /\ data.items[2] = Str(config.targetValue)
  /\ transformedData.items[2] = Str(config.targetValue)
  /\ transformedData.items[1] # data.items[1]

(***************************************************************************)
(* C6: when the call does not fail, every array of the output has the      *)
(* length of the input array, and every object has exactly the input keys  *)
(* minus the denylisted ones, each value of the same JSON kind.            *)
(***************************************************************************)
RECURSIVE SameShape(_, _)
SameShape(in, out) ==
  /\ out.kind = in.kind
  /\ IsArray(in) =>
       /\ Len(out.items) = Len(in.items)
       /\ \A i \in 1..Len(in.items) : SameShape(in.items[i], out.items[i])
  /\ isPlainObject(in) =>
       LET kept == SelectSeq(in.entries, IsSafeEntry) IN
       /\ EntryKeys(out.entries) = EntryKeys(kept)
       /\ \A i \in 1..Len(kept) : SameShape(kept[i].value, out.entries[i].value)
C6_ShapePreserved == pc = "done" => SameShape(data, transformedData)

(***************************************************************************)
(* C7: with limit = 0 the call never fails and returns the input document  *)
(* unchanged with replacementsMade = 0, whatever the document.             *)
(***************************************************************************)
C7_LimitZeroIdentity ==
  config.limit = 0 =>
    /\ pc # "failed"
    /\ replacementsMade = 0
    /\ pc = "done" => transformedData = data
C7_Witness ==
  /\ pc = "done"
  /\ config.limit = 0
  /\ MaxDepthOf(data) > config.maxDepth
  /\ HasDangerousKey(data)

\* every string value of a document, denylisted entries included
RECURSIVE AllValues(_), AllValuesOf(_)
AllValues(v) == <<v>> \o AllValuesOf(Children(v))
AllValuesOf(vs) == IF vs = <<>> THEN <<>> ELSE AllValues(Head(vs)) \o AllValuesOf(Tail(vs))
NoTargetIn(v) == CountTargets(AllValues(v)) = 0

\* a document without its denylisted entries, at every level
RECURSIVE Strip(_)
Strip(v) ==
  IF IsArray(v) THEN Arr([i \in 1..Len(v.items) |-> Strip(v.items[i])])
  ELSE IF isPlainObject(v)
  THEN LET kept == SelectSeq(v.entries, IsSafeEntry) IN
       Obj([i \in 1..Len(kept) |-> Entry(kept[i].key, Strip(kept[i].value))])
  ELSE v

(***************************************************************************)
(* C8 as stated: a document without any target string is returned equal    *)
(* to the input with replacementsMade = 0.                                 *)
(***************************************************************************)
C8_NoTargetIdentity ==
  (Finished /\ NoTargetIn(data)) =>
    pc = "done" /\ transformedData = data /\ replacementsMade = 0

(***************************************************************************)
(* C8 amended: for a document without any target string the call either    *)
(* fails on depth (only with limit > 0 and a value deeper than maxDepth)   *)
(* or returns replacementsMade = 0 and the input without its denylisted    *)
(* entries (all removed when limit > 0, none when limit = 0), hence the    *)
(* input itself when it has no denylisted key.                             *)
(***************************************************************************)
C8_NoTargetStripped ==
  NoTargetIn(data) =>
    /\ replacementsMade = 0
    /\ pc = "failed" => config.limit > 0 /\ MaxDepthOf(data) > config.maxDepth
    /\ pc = "done" =>
         /\ transformedData = (IF config.limit = 0 THEN data ELSE Strip(data))
         /\ ~HasDangerousKey(data) => transformedData = data
C8_Witness ==
  /\ pc = "done"
  /\ NoTargetIn(data)
  /\ HasDangerousKey(data)
  /\ config.limit > 0
  /\ transformedData # data
  /\ \E i \in 1..Len(AllValues(data)) :
       IsString(AllValues(data)[i]) /\ AllValues(data)[i].str = "Dog"

(***************************************************************************)
(* C9: a string is changed only if it equals targetValue exactly: in the   *)
(* returned document every position holds the input value of that          *)
(* position, or replacementValue where the input holds targetValue; a      *)
(* string differing from targetValue is found unchanged at its position.   *)
(***************************************************************************)
EntryOf(entries, k) == entries[CHOOSE i \in 1..Len(entries) : entries[i].key = k]
HasKey(entries, k) == \E i \in 1..Len(entries) : entries[i].key = k
RECURSIVE ExactlyReplaced(_, _)
ExactlyReplaced(in, out) ==
  IF IsString(in)
  THEN \/ out = in
       \/ in.str = config.targetValue /\ out = Str(config.replacementValue)
  ELSE IF IsArray(in)
  THEN /\ IsArray(out)
       /\ Len(out.items) = Len(in.items)
       /\ \A i \in 1..Len(in.items) : ExactlyReplaced(in.items[i], out.items[i])
  ELSE IF isPlainObject(in)
  THEN /\ isPlainObject(out)
       /\ \A i \in 1..Len(out.entries) :
            /\ HasKey(in.entries, out.entries[i].key)
            /\ ExactlyReplaced(EntryOf(in.entries, out.entries[i].key).value,
                               out.entries[i].value)
       /\ \A i \in 1..Len(in.entries) :
            IsSafeEntry(in.entries[i]) => HasKey(out.entries, in.entries[i].key)
  ELSE out = in
C9_ExactMatchOnly == pc = "done" => ExactlyReplaced(data, transformedData)
NearMisses == {"Dog", "hotdog", " dog "}
C9_Witness ==
  /\ pc = "done"
  /\ replacementsMade = 1
  /\ config.limit = 2
  /\ IsArray(data) /\ Len(data.items) = 2
  /\ IsString(data.items[1]) /\ data.items[1].str \in NearMisses
  /\ data.items[2] = Str(config.targetValue)
  /\ transformedData.items[1] = data.items[1]
  /\ transformedData.items[2] = Str(config.replacementValue)

(***************************************************************************)
(* C10: object keys are never changed: the keys of every returned object   *)
(* are keys of the input object, a key equal to targetValue stays, and     *)
(* replacementsMade counts target values only, never keys.                 *)
(***************************************************************************)
RECURSIVE KeysKept(_, _)
KeysKept(in, out) ==
  /\ IsArray(in) =>
       \A i \in 1..Len(in.items) : KeysKept(in.items[i], out.items[i])
  /\ isPlainObject(in) =>
       /\ \A i \in 1..Len(out.entries) : HasKey(in.entries, out.entries[i].key)
       /\ HasKey(in.entries, config.targetValue) => HasKey(out.entries, config.targetValue)
       /\ \A i \in 1..Len(out.entries) :
            KeysKept(EntryOf(in.entries, out.entries[i].key).value, out.entries[i].value)
C10_KeysImmune ==
  pc = "done" =>
    /\ KeysKept(data, transformedData)
    /\ replacementsMade <= CountTargets(Leaves(data))
C10_Witness ==
  /\ pc = "done"
  /\ config.limit > 0
  /\ data = Obj(<<Entry(config.targetValue, Str(config.replacementValue))>>)
  /\ transformedData = data
  /\ replacementsMade = 0

(***************************************************************************)
(* C11: every null, boolean and number of the input is found unchanged at  *)
(* its position in the returned document, and the step that visits or      *)
(* copies such a value leaves replacementsMade as it is.                    *)
(***************************************************************************)
IsOtherScalar(v) == v.kind \in {"null", "boolean", "number"}
RECURSIVE OtherScalarsKept(_, _)
OtherScalarsKept(in, out) ==
  IF IsOtherScalar(in) THEN out = in
  ELSE IF IsArray(in)
  THEN /\ IsArray(out)
       /\ Len(out.items) = Len(in.items)
       /\ \A i \in 1..Len(in.items) : OtherScalarsKept(in.items[i], out.items[i])
  ELSE IF isPlainObject(in)
  THEN /\ isPlainObject(out)
       /\ \A i \in 1..Len(in.entries) :
            IsSafeEntry(in.entries[i]) =>
              /\ HasKey(out.entries, in.entries[i].key)
              /\ OtherScalarsKept(in.entries[i].value,
                                  EntryOf(out.entries, in.entries[i].key).value)
  ELSE TRUE
OtherScalarStep ==
  (WritesSlot /\ IsOtherScalar(SlotSource)) =>
    /\ SlotWritten = SlotSource
    /\ replacementsMade' = replacementsMade
C11_OtherScalarsUntouched ==
  /\ [](pc = "done" => OtherScalarsKept(data, transformedData))
  /\ [][OtherScalarStep]_vars
C11_Witness ==
  /\ pc = "done"
  /\ replacementsMade = 1
  /\ config.limit = 2
  /\ isPlainObject(data) /\ Len(data.entries) = 2
  /\ IsSafeEntry(data.entries[1]) /\ IsSafeEntry(data.entries[2])
  /\ data.entries[1].value = Str(config.targetValue)
  /\ IsOtherScalar(data.entries[2].value)
  /\ transformedData.entries[2] = data.entries[2]

(***************************************************************************)
(* C18: a document that is a single scalar never fails on depth; a root    *)
(* string equal to targetValue with limit >= 1 yields replacementValue and *)
(* replacementsMade = 1, any other root scalar is returned unchanged with  *)
(* replacementsMade = 0.                                                   *)
(***************************************************************************)
C18_TopLevelScalar ==
  ~IsContainer(data) =>
    /\ pc # "failed"
    /\ pc = "done" =>
         IF IsTargetString(data) /\ config.limit >= 1
         THEN transformedData = Str(config.replacementValue) /\ replacementsMade = 1
         ELSE transformedData = data /\ replacementsMade = 0
C18_Witness ==
  /\ pc = "done"
  /\ data = Str(config.targetValue)
  /\ config.limit >= 1
  /\ transformedData = Str(config.replacementValue)
  /\ transformedData # data
  /\ replacementsMade = 1

C19_SameValueStillCounted ==
  (pc = "done" /\ config.targetValue = config.replacementValue) =>
    /\ replacementsMade = Min(config.limit, CountTargets(Leaves(data)))
    /\ Strip(transformedData) = Strip(data)
    /\ ~HasDangerousKey(data) => transformedData = data
C19_Witness ==
  /\ pc = "done"
  /\ config.targetValue = config.replacementValue
  /\ replacementsMade = 2
  /\ CountTargets(Leaves(data)) > 2
  /\ transformedData = data

(***************************************************************************)
(* The outcome of a call computed in one piece from the document and the   *)
(* configuration alone: [failed, value, made].                             *)
(***************************************************************************)
RECURSIVE Outcome(_, _, _, _), OutcomeOfItems(_, _, _, _, _), OutcomeOfEntries(_, _, _, _, _)
Outcome(cfg, v, d, m) ==
  IF d > cfg.maxDepth THEN [failed |-> TRUE]
  ELSE IF m >= cfg.limit THEN [failed |-> FALSE, value |-> v, made |-> m]
  ELSE IF v.kind = "string"
  THEN IF v.str = cfg.targetValue
       THEN [failed |-> FALSE, value |-> Str(cfg.replacementValue), made |-> m + 1]
       ELSE [failed |-> FALSE, value |-> v, made |-> m]
  ELSE IF v.kind = "array" THEN OutcomeOfItems(cfg, v.items, d, m, <<>>)
  ELSE IF v.kind = "object" THEN OutcomeOfEntries(cfg, v.entries, d, m, <<>>)
  ELSE [failed |-> FALSE, value |-> v, made |-> m]
OutcomeOfItems(cfg, items, d, m, acc) ==
  IF items = <<>> THEN [failed |-> FALSE, value |-> Arr(acc), made |-> m]
  ELSE IF m >= cfg.limit
  THEN OutcomeOfItems(cfg, Tail(items), d, m, Append(acc, Head(items)))
  ELSE LET r == Outcome(cfg, Head(items), d + 1, m) IN
       IF r.failed THEN r
       ELSE OutcomeOfItems(cfg, Tail(items), d, r.made, Append(acc, r.value))
OutcomeOfEntries(cfg, entries, d, m, acc) ==
  IF entries = <<>> THEN [failed |-> FALSE, value |-> Obj(acc), made |-> m]
  ELSE LET e == Head(entries) IN
       IF e.key \in {"__proto__", "constructor", "prototype"}
       THEN OutcomeOfEntries(cfg, Tail(entries), d, m, acc)
       ELSE IF m >= cfg.limit
       THEN OutcomeOfEntries(cfg, Tail(entries), d, m, Append(acc, e))
       ELSE LET r == Outcome(cfg, e.value, d + 1, m) IN
            IF r.failed THEN r
            ELSE OutcomeOfEntries(cfg, Tail(entries), d, r.made,
                                  Append(acc, Entry(e.key, r.value)))

(***************************************************************************)
(* C20: the outcome of a call is determined by its document and its        *)
(* configuration: every run ends in the one outcome (failure on depth, or  *)
(* returned document and replacementsMade) that is a function of           *)
(* (data, config), so two calls with equal arguments end alike.            *)
(***************************************************************************)
C20_OutcomeIsFunctionOfInput ==
  Finished =>
    LET o == Outcome(config, data, 0, 0) IN
    /\ (pc = "failed") = o.failed
    /\ pc = "done" => transformedData = o.value /\ replacementsMade = o.made
C20_Witness ==
  /\ pc = "done"
  /\ replacementsMade = config.limit
  /\ config.limit > 0
  /\ transformedData # data
  /\ HasDangerousKey(transformedData)

(***************************************************************************)
(* Reading a limit override as a decimal numeral, independently of         *)
(* parseInt: the value is summed from the last digit.                      *)
(***************************************************************************)
IsNaturalText(t) == t # <<>> /\ \A i \in 1..Len(t) : IsDigit(t[i])
RECURSIVE NaturalValue(_)
NaturalValue(t) ==
  IF t = <<>> THEN 0
  ELSE DigitValue(t[Len(t)]) + 10 * NaturalValue(SubSeq(t, 1, Len(t) - 1))
Unsigned(t) == IF t # <<>> /\ t[1] \in {"+", "-"} THEN SubSeq(t, 2, Len(t)) ELSE t
IsIntegerText(t) == IsNaturalText(Unsigned(TrimStart(t)))
IntegerValue(t) ==
  LET s == TrimStart(t) IN
  IF s[1] = "-" THEN 0 - NaturalValue(Unsigned(s)) ELSE NaturalValue(Unsigned(s))
InvalidOverride(t) == ~IsIntegerText(t) \/ IntegerValue(t) < 0

Succeeded == response.sent /\ response.status = 200
MentionsLimit(message) == MessageIncludes(message, "limit")

(***************************************************************************)
(* C13: POST /transform resolves the limit to defaultReplacementLimit when *)
(* no limit parameter is supplied and to the supplied non-negative integer *)
(* (0 included) otherwise; the engine runs with exactly that limit, and a  *)
(* successful response reports it as meta.replacementLimit together with   *)
(* the engine's count as meta.replacementsMade.                            *)
(***************************************************************************)
C13_ResolvedLimitReported ==
  LET supplied == request.limit.present
      resolved == IF supplied THEN NaturalValue(request.limit.text)
                  ELSE appConfig.defaultReplacementLimit
      covered == ~supplied \/ IsNaturalText(request.limit.text)
      cfg == [targetValue |-> appConfig.targetValue,
              replacementValue |-> appConfig.replacementValue,
              limit |-> resolved,
              maxDepth |-> appConfig.maxNestingDepth]
  IN covered =>
       /\ hpc = "engine" => config = cfg /\ data = request.body
       /\ Succeeded =>
            LET o == Outcome(cfg, request.body, 0, 0) IN
            /\ ~o.failed
            /\ DOMAIN response.body = {"data", "meta"}
            /\ response.body.data = o.value
            /\ response.body.meta.replacementLimit = resolved
            /\ response.body.meta.replacementsMade = o.made
C13_Witness ==
  /\ Succeeded
  /\ request.limit.present
  /\ request.limit.text = <<"1">>
  /\ appConfig.defaultReplacementLimit # 1
  /\ response.body.meta.replacementLimit = 1
  /\ response.body.meta.replacementsMade = 1
  /\ CountTargets(Leaves(request.body)) > 1

(***************************************************************************)
(* C14: every supplied limit override whose text is not a base-10 integer, *)
(* or whose value is negative, is rejected with HTTP 400 and an error      *)
(* message mentioning the limit; an override of 0 is accepted.             *)
(***************************************************************************)
C14_InvalidLimitRejected ==
  (response.sent /\ request.limit.present) =>
    /\ InvalidOverride(request.limit.text) =>
         /\ response.status = 400
         /\ DOMAIN response.body = {"error"}
         /\ MentionsLimit(response.body.error)
    /\ request.limit.text = <<"0">> =>
         ~(error.kind = "Error" /\ MentionsLimit(error.message))

C16_DepthFailureHasNoData ==
  response.sent =>
    /\ pc = "failed" =>
         /\ response.status = 400
         /\ response.body = [error |-> <<"Maximum", "nesting", "depth", "exceeded">>]
    /\ (pc = "done" /\ replacementsMade = limit) =>
         /\ response.status = 200
         /\ response.body.data = transformedData
         /\ response.body.meta.replacementsMade = limit
C16_Witness ==
  /\ response.sent
  /\ pc = "failed"
  /\ replacementsMade > 0
  /\ response.status = 400

(***************************************************************************)
(* C17: an error raised while handling POST /transform that is neither the *)
(* depth error nor an invalid-limit error is reported with a generic       *)
(* message only; the response never contains the error's own message.      *)
(***************************************************************************)
C17_UnclassifiedErrorNotLeaked ==
  (/\ response.sent
   /\ error.kind = "Error"
   /\ ~MessageIncludes(error.message, "depth")
   /\ ~MentionsLimit(error.message)) =>
    /\ DOMAIN response.body = {"error"}
    /\ response.body.error # error.message
    /\ response.body.error = <<"Internal", "server", "error">>

(***************************************************************************)
(* C25: once replacementsMade has reached limit the traversal visits no    *)
(* further value: no loop is entered, nothing fails and nothing is         *)
(* counted; every remaining array element and every remaining entry with a *)
(* key off the denylist is written to the output as it is in the input,    *)
(* one by one, the budget being tested before each of them.                *)
(***************************************************************************)
BudgetSpent == pc \in {"start", "running"} /\ replacementsMade >= config.limit
AtRemainingSlot ==
  /\ stack # <<>>
  /\ Top.i <= Len(Top.src)
  /\ Top.fn = "replaceInObject" => IsSafeEntry(Top.src[Top.i])
CopyStep ==
  BudgetSpent =>
    /\ pc' # "failed"
    /\ Len(stack') <= Len(stack)
    /\ replacementsMade' = replacementsMade
    /\ (pc = "start" \/ AtRemainingSlot) => WritesSlot
    /\ WritesSlot => SlotWritten = SlotSource
C25_NothingVisitedAfterLimit == [][CopyStep]_vars
C25_Witness ==
  /\ pc = "done"
  /\ config.limit = 1
  /\ replacementsMade = 1
  /\ IsArray(data) /\ Len(data.items) = 2
  /\ data.items[1] = Str(config.targetValue)
  /\ IsContainer(data.items[2])
  /\ CountTargets(Leaves(data.items[2])) > 0
  /\ MaxDepthOf(data) > config.maxDepth
  /\ transformedData.items[2] = data.items[2]

(***************************************************************************)
(* C26: the value under a denylisted key is never traversed: the step that *)
(* meets such an entry only moves on to the next entry, so target strings  *)
(* inside it are not counted and nesting deeper than maxDepth inside it    *)
(* does not make the call fail.                                            *)
(***************************************************************************)
AtDroppedEntry ==
  /\ pc = "running"
  /\ stack # <<>>
  /\ Top.fn = "replaceInObject"
  /\ Top.i <= Len(Top.src)
  /\ ~IsSafeEntry(Top.src[Top.i])
DropStep ==
  AtDroppedEntry =>
    /\ pc' = "running"
    /\ replacementsMade' = replacementsMade
    /\ Len(stack') = Len(stack)
    /\ stack'[Len(stack')] = [Top EXCEPT !.i = @ + 1]
C26_DroppedValueNotTraversed ==
  /\ [][DropStep]_vars
  /\ [](pc = "failed" => MaxDepthOf(Strip(data)) > config.maxDepth)
  /\ [](replacementsMade <= CountTargets(Leaves(data)))
C26_Witness ==
  /\ pc = "done"
  /\ replacementsMade < config.limit
  /\ isPlainObject(data)
  /\ \E i \in 1..Len(data.entries) :
       /\ ~IsSafeEntry(data.entries[i])
       /\ CountTargets(AllValues(data.entries[i].value)) > 0
  /\ MaxDepthOf(data) > config.maxDepth
  /\ ~HasDangerousKey(transformedData)

(***************************************************************************)
(* C27: the depth guard bounds the recursion: replaceInArray and           *)
(* replaceInObject are only ever active at depths 0, 1, .., maxDepth, one  *)
(* loop per depth, so replace is entered at depth maxDepth + 1 at most and *)
(* at most maxDepth + 2 calls of replace are nested, however deep the      *)
(* document is.                                                            *)
(***************************************************************************)
C27_RecursionBounded ==
  /\ \A i \in 1..Len(stack) : stack[i].depth = i - 1 /\ stack[i].depth <= config.maxDepth
  /\ Len(stack) <= config.maxDepth + 1
C27_Witness ==
  /\ pc = "running"
  /\ Len(stack) = config.maxDepth + 1
  /\ Top.i <= Len(Top.src)
  /\ IsContainer(SlotSource)
  /\ replacementsMade < config.limit
  /\ MaxDepthOf(data) > config.maxDepth

(***************************************************************************)
(* C28: the call fails on depth if and only if the traversal reaches,      *)
(* while replacementsMade < limit, a value at depth maxDepth + 1 that is   *)
(* not under a denylisted key; values deeper than maxDepth that lie only   *)
(* in subtrees copied after the budget was spent cause no failure.         *)
(***************************************************************************)
\* a value at depth maxDepth + 1, outside denylisted entries, with fewer
\* than limit target strings before it in depth-first order
ReachedAtGuardDepth ==
  LET seq == Preorder(data, 0) IN
  \E i \in 1..Len(seq) :
    /\ seq[i].depth = config.maxDepth + 1
    /\ TargetsAmong(seq, i - 1) < config.limit
FailStep ==
  (pc # "failed" /\ pc' = "failed") =>
    /\ AtRemainingSlot
    /\ Top.depth + 1 = config.maxDepth + 1
    /\ replacementsMade < config.limit
C28_FailsIffGuardDepthReached ==
  /\ [](Finished => ((pc = "failed") = ReachedAtGuardDepth))
  /\ [][FailStep]_vars
C28_Witness ==
  /\ pc = "done"
  /\ config.limit > 0
  /\ replacementsMade = config.limit
  /\ MaxDepthOf(Strip(data)) > config.maxDepth
  /\ ~ReachedAtGuardDepth

(***************************************************************************)
(* C29: if the call returns with replacementsMade < limit and targetValue  *)
(* differs from replacementValue, no string equal to targetValue is left   *)
(* at any position of the output; a target string survives only when       *)
(* replacementsMade = limit.                                               *)
(***************************************************************************)
C29_TargetSurvivesOnlyAtLimit ==
  (pc = "done" /\ config.targetValue # config.replacementValue) =>
    /\ replacementsMade < config.limit => NoTargetIn(transformedData)
    /\ ~NoTargetIn(transformedData) => replacementsMade = config.limit
C29_Witness ==
  /\ pc = "done"
  /\ config.targetValue # config.replacementValue
  /\ replacementsMade > 0
  /\ replacementsMade < config.limit
  /\ CountTargets(AllValues(data)) > replacementsMade
  /\ NoTargetIn(transformedData)

(***************************************************************************)
(* C30: every POST /transform request that reaches the handler gets        *)
(* exactly one response: a response is eventually sent, it is never        *)
(* replaced by a second one, and it is either 200 with data and meta (and  *)
(* then no error was raised by parseLimit or replaceValues) or an error    *)
(* status with an error field and neither data nor meta.                   *)
(***************************************************************************)
WellFormedResponse ==
  \/ /\ response.status = 200
     /\ DOMAIN response.body = {"data", "meta"}
     /\ error = NoError
     /\ pc = "done"
  \/ /\ response.status \in {400, 500}
     /\ DOMAIN response.body = {"error"}
     /\ error # NoError
C30_ExactlyOneResponse ==
  /\ [](response.sent => WellFormedResponse)
  /\ [](response.sent = (hpc = "end"))
  /\ [][response.sent => response' = response]_vars
  /\ <>response.sent
C30_Witness ==
  /\ response.sent
  /\ response.status = 400
  /\ pc = "failed"
  /\ replacementsMade > 0

(***************************************************************************)
(* C21: calls are independent: whatever requests were handled before       *)
(* (successful, limit-reached, failed), a request gets the response the    *)
(* same request gets in isolation; the counter of every call starts at 0   *)
(* and never exceeds the number of target strings of its own document.     *)
(***************************************************************************)
\* the response to a request computed from the request and the AppConfig
\* alone
IsolatedResponse ==
  LET r == parseLimit(request.limit, appConfig.defaultReplacementLimit) IN
  IF ~r.ok THEN ErrorResponse(400, r.error.message)
  ELSE LET cfg == [targetValue |-> appConfig.targetValue,
                   replacementValue |-> appConfig.replacementValue,
                   limit |-> r.limit,
                   maxDepth |-> appConfig.maxNestingDepth]
           o == Outcome(cfg, request.body, 0, 0)
       IN IF o.failed
          THEN ErrorResponse(400, <<"Maximum", "nesting", "depth", "exceeded">>)
          ELSE [sent |-> TRUE, status |-> 200,
                body |-> [data |-> o.value,
                          meta |-> [replacementsMade |-> o.made,
                                    replacementLimit |-> r.limit]]]
CounterStartsAtZero ==
  (pc = "start" /\ pc' \in {"running", "done", "failed"}) =>
    replacementsMade' = (IF pc' = "done" /\ transformedData' # data THEN 1 ELSE 0)
C21_CallsIndependent ==
  /\ []((response.sent /\ error \notin UnexpectedErrors) => response = IsolatedResponse)
  /\ []((hpc = "engine" /\ pc \in {"running", "done", "failed"}) =>
          replacementsMade <= CountTargets(Leaves(data)))
  /\ [][CounterStartsAtZero]_vars
C21_Witness ==
  /\ {"limit reached", "depth exceeded", "invalid limit"} \subseteq earlier
  /\ response.sent
  /\ response.status = 200
  /\ response.body.meta.replacementLimit = 2
  /\ response.body.meta.replacementsMade = 2
  /\ request.body = Arr(<<Str("dog"), Str("dog"), Str("dog")>>)

(***************************************************************************)
(* C22: the configuration is validated before the server starts: getConfig *)
(* throws when PORT is non-numeric or outside 1..65535, TARGET_VALUE is    *)
(* empty after trimming, DEFAULT_REPLACEMENT_LIMIT is non-numeric or       *)
(* negative, or MAX_NESTING_DEPTH is < 1; createApp and listen come after  *)
(* getConfig, so the process never serves with such an environment, and    *)
(* every configuration it serves with has 1 <= port <= 65535, a non-empty  *)
(* trimmed targetValue, defaultReplacementLimit >= 0, maxNestingDepth >= 1.*)
(***************************************************************************)
\* a variable that is set to the empty text counts as not given
Given(v) == v.set /\ v.text # <<>>
NonNumeric(v) == Given(v) /\ ~IsIntegerText(v.text)
NumberOf(v) == IntegerValue(v.text)
InvalidEnvironment ==
  \/ NonNumeric(env.PORT)
  \/ Given(env.PORT) /\ IsIntegerText(env.PORT.text)
       /\ (NumberOf(env.PORT) < 1 \/ NumberOf(env.PORT) > 65535)
  \/ env.TARGET_VALUE.set /\ Trim(env.TARGET_VALUE.text) = <<>>
  \/ NonNumeric(env.DEFAULT_REPLACEMENT_LIMIT)
  \/ Given(env.DEFAULT_REPLACEMENT_LIMIT) /\ IsIntegerText(env.DEFAULT_REPLACEMENT_LIMIT.text)
       /\ NumberOf(env.DEFAULT_REPLACEMENT_LIMIT) < 0
  \/ Given(env.MAX_NESTING_DEPTH) /\ IsIntegerText(env.MAX_NESTING_DEPTH.text)
       /\ NumberOf(env.MAX_NESTING_DEPTH) < 1
ValidAppConfig ==
  /\ 1 <= appConfig.port /\ appConfig.port <= 65535
  /\ appConfig.targetValue # <<>>
  /\ Trim(appConfig.targetValue) = appConfig.targetValue
  /\ appConfig.defaultReplacementLimit >= 0
  /\ appConfig.maxNestingDepth >= 1
Started == proc \in {"configured", "created", "serving"}
C22_ConfigValidatedBeforeServing ==
  /\ InvalidEnvironment => proc \in {"starting", "exited"}
  /\ proc = "exited" => appConfig = NoAppConfig
  /\ Started => ValidAppConfig

\* the body of the request is refused by the JSON decoder
DecodeFails ==
  \/ request.wire.kind = "no JSON"
  \/ request.wire.kind = "JSON" /\ ~IsContainer(request.wire.doc)
Oversized == request.wire.kind = "over 1mb"
OtherMiddlewareFailure == request.wire.kind = "unsupported charset"
BodyAccepted == ~DecodeFails /\ ~Oversized /\ ~OtherMiddlewareFailure
EngineUntouched == pc = "idle" /\ stack = <<>> /\ hpc \in {"arrived", "error handler", "end"}

\* C23: a body that fails JSON decoding is answered 400 'Invalid JSON
\* payload', a body over 1 MB 413 'Payload too large', any other middleware
\* error 500 'Internal server error'; with an accepted body an unknown route
\* is answered 404 and GET /health 200 {status: 'ok'}; when decoding fails or
\* the body is oversized, replaceValues is never invoked.
C23_TransportOutcomes ==
  /\ (DecodeFails \/ Oversized) => EngineUntouched
  /\ response.sent =>
       /\ DecodeFails => response = ErrorResponse(400, <<"Invalid", "JSON", "payload">>)
       /\ Oversized => response = ErrorResponse(413, <<"Payload", "too", "large">>)
       /\ OtherMiddlewareFailure =>
            response = ErrorResponse(500, <<"Internal", "server", "error">>)
       /\ (BodyAccepted /\ request.route = "GET /unknown") => response.status = 404
       /\ (BodyAccepted /\ request.route = "GET /health") =>
            (response.status = 200 /\ response.body = [status |-> "ok"])

\* an oversized body posted to /transform has been answered
C23_Witness ==
  /\ response.sent
  /\ request.route = "POST /transform"
  /\ Oversized
  /\ response.status = 413
  /\ pc = "idle"

\* C24: an object's entries are visited in the order in which its keys
\* appear in the submitted document: a successful response carries what
\* replaceValues yields on the document with its keys in that order.
C24_SubmittedKeyOrder ==
  (request.route = "POST /transform" /\ request.wire.kind = "JSON" /\ Succeeded) =>
    LET o == Outcome(config, request.wire.doc, 0, 0) IN
      IF o.failed THEN FALSE ELSE response.body.data = o.value

====
